---- MODULE Spec2Model ----
(***************************************************************************)
(* A model of lox-rs: the Scanner (src/src/scanner.rs), the Parser         *)
(* (src/src/parser.rs) and the run() pipeline of src/src/main.rs.          *)
(*                                                                         *)
(* Characters are one-character strings, a source text and a lexeme are    *)
(* sequences of characters.  Indices (start, current, the parser's         *)
(* current) are 0-based as in the code; a TLA+ sequence is 1-based, so     *)
(* source[i] of the code is source[i + 1] here.                            *)
(***************************************************************************)
EXTENDS Integers, Sequences, FiniteSets, TLC

VARIABLES
    source,    \* Scanner.source
    tokens,    \* Scanner.tokens
    start,     \* Scanner.start
    current,   \* Scanner.current
    line,      \* Scanner.line
    errors,    \* the local `errors` of Scanner::scan
    spc,       \* where the scanner is: "idle" (no scan running) or "loop"
    results,   \* the values returned by the scan calls made so far, in order
    ptokens,   \* Parser.tokens
    pcurrent,  \* Parser.current
    stack,     \* the parser's call stack, innermost frame last
    ret,       \* the value just returned by the innermost finished call
    presult,   \* the value returned by Parser::parse
    printed    \* what run() wrote for the parsed expression, <<>> before

scanVars == <<source, tokens, start, current, line, errors, spc, results>>
parseVars == <<ptokens, pcurrent, stack, ret, presult>>
vars == <<source, tokens, start, current, line, errors, spc, results,
          ptokens, pcurrent, stack, ret, presult, printed>>

(***************************************************************************)
(* Bounds of the model.                                                    *)
(***************************************************************************)
MaxLen == 4       \* longest source text of Spec
MaxCalls == 2     \* scan calls made on one Scanner in Spec
MaxTokens == 5    \* longest token sequence (before Eof) of SpecParse
MaxRunLen == 5    \* longest source text of SpecRun

RECURSIVE SeqsOfLen(_, _)
SeqsOfLen(S, n) ==
    IF n = 0 THEN {<<>>}
    ELSE {Append(s, x) : s \in SeqsOfLen(S, n - 1), x \in S}

SeqsUpTo(S, n) == UNION {SeqsOfLen(S, k) : k \in 0..n}

Last(s) == s[Len(s)]

(***************************************************************************)
(* Characters.                                                             *)
(***************************************************************************)
NUL == "NUL"      \* the '\0' that peek_token returns at the end of input

Digits == {"0", "1", "2", "3", "4", "5", "6", "7", "8", "9"}

LowerCase == {"a", "b", "c", "d", "e", "f", "g", "h", "i", "j", "k", "l", "m",
              "n", "o", "p", "q", "r", "s", "t", "u", "v", "w", "x", "y", "z"}

UpperCase == {"A", "B", "C", "D", "E", "F", "G", "H", "I", "J", "K", "L", "M",
              "N", "O", "P", "Q", "R", "S", "T", "U", "V", "W", "X", "Y", "Z"}

is_digit(c) == c \in Digits

is_alpha_numeric(c) ==
    c \in LowerCase \/ c \in UpperCase \/ c = "_" \/ is_digit(c)

(***************************************************************************)
(* Tokens and diagnostics.                                                 *)
(***************************************************************************)
Token(kind, lexeme, ln) == [kind |-> kind, lexeme |-> lexeme, line |-> ln]

LoxErr(ln, message) == [line |-> ln, message |-> message]

\* "and" => Some(TokenKind::And), ...: the reserved-word table.
Reserved ==
    { [word |-> <<"a", "n", "d">>, kind |-> "And"],
      [word |-> <<"c", "l", "a", "s", "s">>, kind |-> "Class"],
      [word |-> <<"e", "l", "s", "e">>, kind |-> "Else"],
      [word |-> <<"f", "a", "l", "s", "e">>, kind |-> "False"],
      [word |-> <<"f", "o", "r">>, kind |-> "For"],
      [word |-> <<"f", "u", "n">>, kind |-> "Fun"],
      [word |-> <<"i", "f">>, kind |-> "If"],
      [word |-> <<"n", "i", "l">>, kind |-> "Nil"],
      [word |-> <<"o", "r">>, kind |-> "Or"],
      [word |-> <<"p", "r", "i", "n", "t">>, kind |-> "Print"],
      [word |-> <<"r", "e", "t", "u", "r", "n">>, kind |-> "Return"],
      [word |-> <<"s", "u", "p", "e", "r">>, kind |-> "Super"],
      [word |-> <<"t", "h", "i", "s">>, kind |-> "This"],
      [word |-> <<"t", "r", "u", "e">>, kind |-> "True"],
      [word |-> <<"v", "a", "r">>, kind |-> "Var"],
      [word |-> <<"w", "h", "i", "l", "e">>, kind |-> "While"] }

\* Mutant: a lexeme that starts with a reserved word is reserved.
reserve_kind_prefix(lexeme) ==
    LET starts(r) == /\ Len(r.word) <= Len(lexeme)
                     /\ SubSeq(lexeme, 1, Len(r.word)) = r.word
    IN  IF \E r \in Reserved : starts(r)
        THEN <<(CHOOSE r \in Reserved : starts(r)).kind>>
        ELSE <<>>

\* Some(kind) is <<kind>>, None is <<>>.
reserve_kind(lexeme) ==
    IF \E r \in Reserved : r.word = lexeme
    THEN <<(CHOOSE r \in Reserved : r.word = lexeme).kind>>
    ELSE <<>>

(***************************************************************************)
(* The Scanner's helpers, as functions of the fields they read.            *)
(***************************************************************************)
at_end(src, cur) == cur >= Len(src)

\* Mutant: the character just consumed is returned.
peek_token_consumed(src, cur) == IF at_end(src, cur) THEN NUL ELSE src[cur]

peek_token(src, cur) == IF at_end(src, cur) THEN NUL ELSE src[cur + 1]

peek_next_token(src, cur) ==
    IF Len(src) <= cur + 1 THEN NUL ELSE src[cur + 2]

\* source[start..current] collected into a String
token_literal(src, st, cur) == SubSeq(src, st + 1, cur)

push_token(toks, kind, lexeme, ln) == Append(toks, Token(kind, lexeme, ln))

\* Mutant: the expected character is consumed too.
RECURSIVE peek_until_through(_, _, _)
peek_until_through(src, cur, expected) ==
    IF at_end(src, cur) THEN cur
    ELSE IF peek_token(src, cur) = expected THEN cur + 1
    ELSE peek_until_through(src, cur + 1, expected)

\* Mutant: the search also stops at the end of the line.
RECURSIVE peek_until_eol(_, _, _)
peek_until_eol(src, cur, expected) ==
    IF ~at_end(src, cur) /\ peek_token(src, cur) \notin {expected, "\n"}
    THEN peek_until_eol(src, cur + 1, expected)
    ELSE cur

\* The value of current after peek_until(expected): line is not touched.
RECURSIVE peek_until(_, _, _)
peek_until(src, cur, expected) ==
    IF ~at_end(src, cur) /\ peek_token(src, cur) # expected
    THEN peek_until(src, cur + 1, expected)
    ELSE cur

\* while !self.at_end() && self.is_digit(&self.peek_token()) { advance }
RECURSIVE AdvanceDigits(_, _)
AdvanceDigits(src, cur) ==
    IF ~at_end(src, cur) /\ is_digit(peek_token(src, cur))
    THEN AdvanceDigits(src, cur + 1)
    ELSE cur

\* Mutant: every '.' and digit after the integer part is taken into the number.
RECURSIVE AdvanceDotsAndDigits(_, _)
AdvanceDotsAndDigits(src, cur) ==
    IF peek_token(src, cur) = "." \/ is_digit(peek_token(src, cur))
    THEN AdvanceDotsAndDigits(src, cur + 1)
    ELSE cur

\* Mutant: a '.' after the integer part is consumed whatever follows it.
AdvanceFractionEager(src, cur) ==
    IF peek_token(src, cur) = "." THEN AdvanceDigits(src, cur + 1) ELSE cur

\* The fractional part: consumed only when '.' is followed by a digit.
AdvanceFraction(src, cur) ==
    IF peek_token(src, cur) = "." /\ is_digit(peek_next_token(src, cur))
    THEN AdvanceDigits(src, cur + 1)
    ELSE cur

\* while self.is_alpha_numeric(&self.peek_token()) { advance }
RECURSIVE AdvanceWord(_, _)
AdvanceWord(src, cur) ==
    IF is_alpha_numeric(peek_token(src, cur))
    THEN AdvanceWord(src, cur + 1)
    ELSE cur

\* Mutant: the quotes stay in the lexeme.
StrLexemeQuoted(lexeme) == lexeme

\* lexeme[1..lexeme.len() - 1]
StrLexeme(lexeme) == SubSeq(lexeme, 2, Len(lexeme) - 1)

(***************************************************************************)
(* scan_token, called with start = st = current.  The outcome holds the    *)
(* new tokens, current and line, and err: <<>> for Ok(()), <<e>> for       *)
(* Err(e).                                                                 *)
(***************************************************************************)
\* Mutant: one more character is consumed before scan_token returns.
OutcomeOneMore(toks, cur, ln, err) ==
    [tokens |-> toks, current |-> cur + 1, line |-> ln, err |-> err]

Outcome(toks, cur, ln, err) ==
    [tokens |-> toks, current |-> cur, line |-> ln, err |-> err]

scan_token(src, toks, st, ln) ==
    LET c == src[st + 1]                    \* let c = self.advance();
        cur == st + 1
        Push(kind, upto) ==
            Outcome(push_token(toks, kind, token_literal(src, st, upto), ln),
                    upto, ln, <<>>)
        OneOrTwo(one, two) ==
            IF peek_token(src, cur) = "=" THEN Push(two, cur + 1)
            ELSE Push(one, cur)
    IN  CASE c = "(" -> Push("LeftParen", cur)
          [] c = ")" -> Push("RightParen", cur)
          [] c = "{" -> Push("LeftBrace", cur)
          [] c = "}" -> Push("RightBrace", cur)
          [] c = "," -> Push("Comma", cur)
          [] c = "." -> Push("Dot", cur)
          [] c = "-" -> Push("Minus", cur)
          [] c = "+" -> Push("Plus", cur)
          [] c = ";" -> Push("Semicolon", cur)
          [] c = "*" -> Push("Star", cur)
          [] c = "!" -> OneOrTwo("Bang", "BangEqual")
          [] c = "=" -> OneOrTwo("Equal", "EqualEqual")
          [] c = "<" -> OneOrTwo("Less", "LessEqual")
          [] c = ">" -> OneOrTwo("Greater", "GreaterEqual")
          [] c = "/" ->
                IF peek_token(src, cur) = "/"
                THEN Outcome(toks, peek_until(src, cur, "\n"), ln, <<>>)
                ELSE Push("Slash", cur)
          [] c = "\"" ->
                LET close == peek_until(src, cur, "\"")
                IN  IF at_end(src, close)
                    THEN Outcome(toks, close, ln,
                                 <<LoxErr(ln, <<"Unterminated string",
                                                token_literal(src, st, close)>>)>>)
                    ELSE Outcome(push_token(toks, "Str",
                                     StrLexeme(token_literal(src, st, close + 1)),
                                     ln),
                                 close + 1, ln, <<>>)
          [] c \in {" ", "\r", "\t"} -> Outcome(toks, cur, ln, <<>>)
          [] is_digit(c) ->
                Push("Number", AdvanceFraction(src, AdvanceDigits(src, cur)))
          [] c \in LowerCase \/ c \in UpperCase \/ c = "_" ->
                LET stop == AdvanceWord(src, cur)
                    kind == reserve_kind(token_literal(src, st, stop))
                IN  IF kind # <<>> THEN Push(kind[1], stop)
                    ELSE Push("Identifier", stop)
          [] c = "\n" -> Outcome(toks, cur, ln + 1, <<>>)
          [] OTHER ->
                Outcome(toks, cur, ln,
                        <<LoxErr(ln, <<"Unexpected token",
                                       token_literal(src, st, cur)>>)>>)

(***************************************************************************)
(* Scanner::scan, one loop iteration per step.                             *)
(***************************************************************************)
\* let mut errors: Vec<LoxErr> = vec![];  (prev: what an earlier call left)
NewErrors(prev) == <<>>

\* Mutant: Eof pushed with lexeme None, so the lexeme is inferred from
\* source[start..current].
PushEofInferred(toks, src, st, cur, ln) ==
    push_token(toks, "Eof", token_literal(src, st, cur), ln)

\* self.push_token(TokenKind::Eof, Some(String::from("")))
PushEof(toks, src, st, cur, ln) == push_token(toks, "Eof", <<>>, ln)

\* if errors.len() == 0 { Ok(&self.tokens) } else { Err(errors) }
ScanResult(toks, errs) ==
    IF Len(errs) = 0
    THEN [ok |-> TRUE, tokens |-> toks, errors |-> <<>>]
    ELSE [ok |-> FALSE, tokens |-> <<>>, errors |-> errs]

\* Mutant: only the latest diagnostic is kept.
CollectLatest(errs, err) == IF err # <<>> THEN err ELSE errs

\* errors.push(e) on Err(e), nothing on Ok
Collect(errs, err) == errs \o err

\* Scanner::new(source)
NewScanner(src) ==
    /\ source = src
    /\ tokens = <<>>
    /\ start = 0
    /\ current = 0
    /\ line = 1
    /\ errors = <<>>
    /\ spc = "idle"
    /\ results = <<>>

\* A caller invokes scan on the Scanner it holds.
ScanBegin ==
    /\ spc = "idle"
    /\ Len(results) < MaxCalls
    /\ errors' = NewErrors(errors)
    /\ spc' = "loop"
    /\ UNCHANGED <<source, tokens, start, current, line, results>>
    /\ UNCHANGED <<parseVars, printed>>

\* One iteration of `while !self.at_end()`.
ScanLoop ==
    /\ spc = "loop"
    /\ ~at_end(source, current)
    /\ LET out == scan_token(source, tokens, current, line)
       IN  /\ start' = current
           /\ tokens' = out.tokens
           /\ current' = out.current
           /\ line' = out.line
           /\ errors' = Collect(errors, out.err)
    /\ UNCHANGED <<source, spc, results>>
    /\ UNCHANGED <<parseVars, printed>>

\* The loop is left: Eof is pushed and scan returns.
ScanEnd ==
    /\ spc = "loop"
    /\ at_end(source, current)
    /\ tokens' = PushEof(tokens, source, start, current, line)
    /\ results' = Append(results, ScanResult(tokens', errors))
    /\ spc' = "idle"
    /\ UNCHANGED <<source, start, current, line, errors>>
    /\ UNCHANGED <<parseVars, printed>>

(***************************************************************************)
(* str::parse::<f64>, which parse_primary applies to a Number lexeme.      *)
(* Rust accepts  [sign] ( inf | infinity | nan | Number ) , letters in     *)
(* either case, with                                                       *)
(*   Number ::= ( Digit+ | Digit+ '.' Digit* | Digit* '.' Digit+ ) Exp?    *)
(*   Exp    ::= ('e' | 'E') [sign] Digit+                                  *)
(* A finite value is kept as the decimal m * 10^p with m not divisible by  *)
(* ten (binary rounding is not modelled: the lexemes here are short).      *)
(***************************************************************************)
DigitChars == <<"0", "1", "2", "3", "4", "5", "6", "7", "8", "9">>

DigitValue(c) == (CHOOSE n \in 1..10 : DigitChars[n] = c) - 1

AllDigits(s) == \A i \in 1..Len(s) : s[i] \in Digits

\* The first index of s holding a character of set, 0 when there is none.
FirstIndex(s, set) ==
    IF \E i \in 1..Len(s) : s[i] \in set
    THEN CHOOSE i \in 1..Len(s) :
             s[i] \in set /\ \A j \in 1..(i - 1) : s[j] \notin set
    ELSE 0

StripSign(s) == IF s # <<>> /\ s[1] \in {"+", "-"} THEN Tail(s) ELSE s

Negative(s) == s # <<>> /\ s[1] = "-"

SameLetters(s, word) ==
    /\ Len(s) = Len(word)
    /\ \A i \in 1..Len(s) : s[i] \in word[i]

InfWord == <<{"i", "I"}, {"n", "N"}, {"f", "F"}>>

InfinityWord == <<{"i", "I"}, {"n", "N"}, {"f", "F"}, {"i", "I"}, {"n", "N"},
                  {"i", "I"}, {"t", "T"}, {"y", "Y"}>>

NanWord == <<{"n", "N"}, {"a", "A"}, {"n", "N"}>>

MantissaOf(b) ==
    LET e == FirstIndex(b, {"e", "E"})
    IN  IF e = 0 THEN b ELSE SubSeq(b, 1, e - 1)

ExponentOf(b) ==
    LET e == FirstIndex(b, {"e", "E"})
    IN  IF e = 0 THEN <<>> ELSE SubSeq(b, e + 1, Len(b))

IntDigits(m) ==
    LET dot == FirstIndex(m, {"."})
    IN  IF dot = 0 THEN m ELSE SubSeq(m, 1, dot - 1)

FracDigits(m) ==
    LET dot == FirstIndex(m, {"."})
    IN  IF dot = 0 THEN <<>> ELSE SubSeq(m, dot + 1, Len(m))

MantissaOk(m) ==
    /\ AllDigits(IntDigits(m))
    /\ AllDigits(FracDigits(m))
    /\ Len(IntDigits(m)) + Len(FracDigits(m)) >= 1

ExponentOk(b) ==
    FirstIndex(b, {"e", "E"}) # 0 =>
        /\ StripSign(ExponentOf(b)) # <<>>
        /\ AllDigits(StripSign(ExponentOf(b)))

ParseFloatOk(lexeme) ==
    LET b == StripSign(lexeme)
    IN  \/ SameLetters(b, InfWord)
        \/ SameLetters(b, InfinityWord)
        \/ SameLetters(b, NanWord)
        \/ MantissaOk(MantissaOf(b)) /\ ExponentOk(b)

RECURSIVE NatOf(_)
NatOf(s) ==
    IF s = <<>> THEN 0
    ELSE 10 * NatOf(SubSeq(s, 1, Len(s) - 1)) + DigitValue(Last(s))

RECURSIVE Decimal(_, _, _)
Decimal(neg, m, p) ==
    IF m = 0 THEN [kind |-> "finite", neg |-> neg, m |-> 0, p |-> 0]
    ELSE IF m % 10 = 0 THEN Decimal(neg, m \div 10, p + 1)
    ELSE [kind |-> "finite", neg |-> neg, m |-> m, p |-> p]

\* The f64 of a lexeme that ParseFloatOk accepts.
ParseFloat(lexeme) ==
    LET b == StripSign(lexeme)
        m == MantissaOf(b)
        x == ExponentOf(b)
        e == IF Negative(x) THEN 0 - NatOf(StripSign(x)) ELSE NatOf(StripSign(x))
    IN  IF SameLetters(b, InfWord) \/ SameLetters(b, InfinityWord)
        THEN [kind |-> "inf", neg |-> Negative(lexeme), m |-> 0, p |-> 0]
        ELSE IF SameLetters(b, NanWord)
        THEN [kind |-> "nan", neg |-> Negative(lexeme), m |-> 0, p |-> 0]
        ELSE Decimal(Negative(lexeme),
                     NatOf(IntDigits(m) \o FracDigits(m)),
                     e - Len(FracDigits(m)))

(***************************************************************************)
(* Expressions and the values the parser's functions return.               *)
(***************************************************************************)
Binary(left, operator, right) ==
    [type |-> "Binary", left |-> left, operator |-> operator, right |-> right]

Unary(operator, right) ==
    [type |-> "Unary", operator |-> operator, right |-> right]

Grouping(e) == [type |-> "Grouping", inner |-> e]

NumberLiteral(v) == [type |-> "NumberLiteral", value |-> v]

StringLiteral(s) == [type |-> "StringLiteral", value |-> s]

BoolLiteral(b) == [type |-> "BoolLiteral", value |-> b]

NilLiteral == [type |-> "NilLiteral"]

NoValue == [tag |-> "None"]

Ok(v) == [tag |-> "Ok", val |-> v]

Err(e) == [tag |-> "Err", val |-> e]

(***************************************************************************)
(* The Parser's token-matching primitives, as functions of tokens and      *)
(* current.                                                                *)
(***************************************************************************)
peek(toks, cur) == toks[cur + 1]

previous(toks, cur) == toks[cur]

is_at_end(toks, cur) == peek(toks, cur).kind = "Eof"

check(toks, cur, kind) ==
    IF is_at_end(toks, cur) THEN FALSE ELSE peek(toks, cur).kind = kind

\* The value of current after advance().
advance(toks, cur) == IF ~is_at_end(toks, cur) THEN cur + 1 ELSE cur

\* Mutant: the loop goes on after a kind has matched.
RECURSIVE match_tokens_no_return(_, _, _)
match_tokens_no_return(toks, cur, kinds) ==
    IF kinds = <<>> THEN [matched |-> FALSE, current |-> cur]
    ELSE LET hit == check(toks, cur, Head(kinds))
             rest == match_tokens_no_return(
                         toks, IF hit THEN advance(toks, cur) ELSE cur,
                         Tail(kinds))
         IN  [matched |-> hit \/ rest.matched, current |-> rest.current]

\* The first kind of kinds that check accepts decides: advance and true.
match_tokens(toks, cur, kinds) ==
    IF \E i \in 1..Len(kinds) : check(toks, cur, kinds[i])
    THEN [matched |-> TRUE, current |-> advance(toks, cur)]
    ELSE [matched |-> FALSE, current |-> cur]

\* Mutant: the diagnostic is about the token before the cursor.
consume_previous(toks, cur, kind) ==
    LET m == match_tokens(toks, cur, <<kind>>)
        token == previous(toks, m.current)
    IN  IF ~m.matched
        THEN [current |-> m.current,
              res |-> Err(LoxErr(token.line,
                                 <<"Unexpected token. expected", kind,
                                   token.kind>>))]
        ELSE [current |-> m.current, res |-> Ok(<<>>)]

consume(toks, cur, kind) ==
    LET m == match_tokens(toks, cur, <<kind>>)
        token == peek(toks, m.current)
    IN  IF ~m.matched
        THEN [current |-> m.current,
              res |-> Err(LoxErr(token.line,
                                 <<"Unexpected token. expected", kind,
                                   token.kind>>))]
        ELSE [current |-> m.current, res |-> Ok(<<>>)]

(***************************************************************************)
(* The grammar: what each production matches and calls.                    *)
(***************************************************************************)
Operators(fn) ==
    CASE fn = "equality" -> <<"BangEqual", "EqualEqual">>
      [] fn = "comparison" -> <<"Greater", "GreaterEqual", "Less", "LessEqual">>
      [] fn = "addition" -> <<"Minus", "Plus">>
      [] fn = "multiplication" -> <<"Slash", "Star">>
      [] fn = "unary" -> <<"Bang", "Minus">>

\* Mutant: parse_addition and parse_multiplication change places.
SubLevelSwapped(fn) ==
    CASE fn = "equality" -> "comparison"
      [] fn = "comparison" -> "multiplication"
      [] fn = "multiplication" -> "addition"
      [] fn = "addition" -> "unary"

\* Mutant: parse_comparison parses its operands with parse_multiplication.
SubLevelSkipsAddition(fn) ==
    CASE fn = "equality" -> "comparison"
      [] fn = "comparison" -> "multiplication"
      [] fn = "addition" -> "multiplication"
      [] fn = "multiplication" -> "unary"

\* The production a binary level parses its operands with.
SubLevel(fn) ==
    CASE fn = "equality" -> "comparison"
      [] fn = "comparison" -> "addition"
      [] fn = "addition" -> "multiplication"
      [] fn = "multiplication" -> "unary"

\* Mutant: the right operand is parsed by the level itself (right recursion).
RightOperandSelf(fn) == fn

\* let right = self.parse_<sub>()?;
RightOperand(fn) == SubLevel(fn)

\* Mutant: the group parses a whole equality.
GroupLevelEquality == "equality"

\* let expr = self.parse_comparison()?;  in the "(" arm of parse_primary
GroupLevel == "comparison"

\* Mutant: an Err is taken for a value and the production goes on.
PropagatesNever(r) == FALSE

\* The ? operator: an Err returned by the callee is returned at once.
Propagates(r) == r.tag = "Err"

(***************************************************************************)
(* The call stack.  A frame is a running call of a production: fn, where   *)
(* it is (pc), and its locals expr and operator.                           *)
(***************************************************************************)
Unset == [tag |-> "None"]

Frame(fn, pc, expr, operator) ==
    [fn |-> fn, pc |-> pc, expr |-> expr, operator |-> operator]

Top == stack[Len(stack)]

Running(fn) == stack # <<>> /\ Top.fn = fn

\* The top frame becomes frame and calls fn.
Call(frame, fn) ==
    /\ stack' = Append([stack EXCEPT ![Len(stack)] = frame],
                       Frame(fn, "start", Unset, Unset))
    /\ ret' = NoValue

\* The top frame returns value to its caller.
Return(value) ==
    /\ stack' = SubSeq(stack, 1, Len(stack) - 1)
    /\ ret' = value

\* Parser::new(tokens)
NewParser(toks) ==
    /\ ptokens = toks
    /\ pcurrent = 0
    /\ stack = <<>>
    /\ ret = NoValue
    /\ presult = NoValue

\* Parser::parse: calls parse_equality and returns what it returns.
Parse ==
    /\ \/ /\ ptokens # <<>>
          /\ stack = <<>>
          /\ presult = NoValue
          /\ stack' = <<Frame("parse", "tail", Unset, Unset),
                        Frame("equality", "start", Unset, Unset)>>
          /\ UNCHANGED <<ret, presult>>
       \/ /\ Running("parse")
          /\ presult' = ret
          /\ stack' = <<>>
          /\ UNCHANGED ret
    /\ UNCHANGED <<ptokens, pcurrent>>
    /\ UNCHANGED <<scanVars, printed>>

\* parse_equality, parse_comparison, parse_addition, parse_multiplication:
\*   let mut expr = self.parse_<sub>()?;
\*   while self.match_tokens(ops) {
\*       let operator = self.previous();
\*       let right = self.parse_<sub>()?;
\*       expr = Binary { left: expr, operator, right };
\*   }
\*   Ok(expr)
\* One step runs the production from where it is to its next call or return.
BinaryLevel(fn) ==
    /\ Running(fn)
    /\ \/ /\ Top.pc = "start"
          /\ Call([Top EXCEPT !.pc = "left"], SubLevel(fn))
          /\ UNCHANGED pcurrent
       \/ /\ Top.pc \in {"left", "right"}
          /\ IF Propagates(ret)
             THEN Return(ret) /\ UNCHANGED pcurrent
             ELSE LET expr == IF Top.pc = "left" THEN ret.val
                              ELSE Binary(Top.expr, Top.operator, ret.val)
                      m == match_tokens(ptokens, pcurrent, Operators(fn))
                  IN  /\ pcurrent' = m.current
                      /\ IF m.matched
                         THEN Call([Top EXCEPT
                                       !.pc = "right",
                                       !.expr = expr,
                                       !.operator = previous(ptokens, m.current)],
                                   RightOperand(fn))
                         ELSE Return(Ok(expr))
    /\ UNCHANGED <<ptokens, presult>>
    /\ UNCHANGED <<scanVars, printed>>

ParseEquality == BinaryLevel("equality")

ParseComparison == BinaryLevel("comparison")

ParseAddition == BinaryLevel("addition")

ParseMultiplication == BinaryLevel("multiplication")

\* parse_unary
ParseUnary ==
    /\ Running("unary")
    /\ \/ /\ Top.pc = "start"
          /\ LET m == match_tokens(ptokens, pcurrent, Operators("unary"))
             IN  /\ pcurrent' = m.current
                 /\ IF m.matched
                    THEN Call([Top EXCEPT
                                  !.pc = "right",
                                  !.operator = previous(ptokens, m.current)],
                              "unary")
                    ELSE Call([Top EXCEPT !.pc = "tail"], "primary")
       \/ /\ Top.pc = "right"
          /\ IF Propagates(ret) THEN Return(ret)
             ELSE Return(Ok(Unary(Top.operator, ret.val)))
          /\ UNCHANGED pcurrent
       \/ /\ Top.pc = "tail"
          /\ Return(ret)
          /\ UNCHANGED pcurrent
    /\ UNCHANGED <<ptokens, presult>>
    /\ UNCHANGED <<scanVars, printed>>

\* parse_primary up to its return or, after "(", its call of the group's
\* production: the first arm whose match_tokens succeeds decides.
PrimaryHead(toks, cur) ==
    LET M(kind) == match_tokens(toks, cur, <<kind>>)
        Done(k, r) == [current |-> k, group |-> FALSE, res |-> r]
        number_token == previous(toks, M("Number").current)
    IN  IF M("True").matched
        THEN Done(M("True").current, Ok(BoolLiteral(TRUE)))
        ELSE IF M("False").matched
        THEN Done(M("False").current, Ok(BoolLiteral(FALSE)))
        ELSE IF M("Nil").matched
        THEN Done(M("Nil").current, Ok(NilLiteral))
        ELSE IF M("Number").matched
        THEN Done(M("Number").current,
                  IF ParseFloatOk(number_token.lexeme)
                  THEN Ok(NumberLiteral(ParseFloat(number_token.lexeme)))
                  ELSE Err(LoxErr(number_token.line,
                                  <<"Could not parse number",
                                    number_token.lexeme>>)))
        ELSE IF M("Str").matched
        THEN Done(M("Str").current,
                  Ok(StringLiteral(previous(toks, M("Str").current).lexeme)))
        ELSE IF M("LeftParen").matched
        THEN [current |-> M("LeftParen").current, group |-> TRUE,
              res |-> NoValue]
        ELSE Done(cur, Err(LoxErr(peek(toks, cur).line,
                                  <<"Unknown primary", peek(toks, cur).lexeme>>)))

ParsePrimary ==
    /\ Running("primary")
    /\ \/ /\ Top.pc = "start"
          /\ LET head == PrimaryHead(ptokens, pcurrent)
             IN  /\ pcurrent' = head.current
                 /\ IF head.group
                    THEN Call([Top EXCEPT !.pc = "group"], GroupLevel)
                    ELSE Return(head.res)
       \/ /\ Top.pc = "group"
          /\ IF Propagates(ret)
             THEN Return(ret) /\ UNCHANGED pcurrent
             ELSE LET closed == consume(ptokens, pcurrent, "RightParen")
                  IN  /\ pcurrent' = closed.current
                      /\ IF Propagates(closed.res) THEN Return(closed.res)
                         ELSE Return(Ok(Grouping(ret.val)))
    /\ UNCHANGED <<ptokens, presult>>
    /\ UNCHANGED <<scanVars, printed>>

Productions ==
    \/ ParseEquality
    \/ ParseComparison
    \/ ParseAddition
    \/ ParseMultiplication
    \/ ParseUnary
    \/ ParsePrimary

(***************************************************************************)
(* The parser has not been constructed.                                    *)
(***************************************************************************)

NoParser ==
    /\ ptokens = <<>>
    /\ pcurrent = 0
    /\ stack = <<>>
    /\ ret = NoValue
    /\ presult = NoValue

(***************************************************************************)
(* Spec: a Scanner over any source text of the alphabet, scanned up to     *)
(* MaxCalls times.                                                         *)
(***************************************************************************)
Alphabet == {"1", ".", "\"", "\n", "/", "=", "@", "a"}

Init ==
    /\ \E src \in SeqsUpTo(Alphabet, MaxLen) : NewScanner(src)
    /\ NoParser
    /\ printed = <<>>

Next == ScanBegin \/ ScanLoop \/ ScanEnd

Spec == Init /\ [][Next]_vars

(***************************************************************************)
(* No Scanner: the parser is given its tokens directly.                    *)
(***************************************************************************)
NoScanner ==
    /\ source = <<>>
    /\ tokens = <<>>
    /\ start = 0
    /\ current = 0
    /\ line = 1
    /\ errors = <<>>
    /\ spc = "idle"
    /\ results = <<>>

(***************************************************************************)
(* SpecParse: one parse of a Parser constructed over any token sequence    *)
(* of one of the token alphabets, ended by Eof.  The i-th token is on      *)
(* line i, so that a diagnostic's line tells which token it is about.      *)
(***************************************************************************)
TokenAlphabets ==
    { { [kind |-> "Number", lexeme |-> <<"1">>],
        [kind |-> "Minus", lexeme |-> <<"-">>],
        [kind |-> "Star", lexeme |-> <<"*">>],
        [kind |-> "Less", lexeme |-> <<"<">>],
        [kind |-> "EqualEqual", lexeme |-> <<"=", "=">>] },
      { [kind |-> "Number", lexeme |-> <<"1">>],
        [kind |-> "Minus", lexeme |-> <<"-">>],
        [kind |-> "EqualEqual", lexeme |-> <<"=", "=">>],
        [kind |-> "LeftParen", lexeme |-> <<"(">>],
        [kind |-> "RightParen", lexeme |-> <<")">>] },
      { [kind |-> "Str", lexeme |-> <<"a">>],
        [kind |-> "Bang", lexeme |-> <<"!">>],
        [kind |-> "BangEqual", lexeme |-> <<"!", "=">>],
        [kind |-> "LeftParen", lexeme |-> <<"(">>],
        [kind |-> "RightParen", lexeme |-> <<")">>] },
      { [kind |-> "Number", lexeme |-> <<"1", "x">>],
        [kind |-> "True", lexeme |-> <<"t", "r", "u", "e">>],
        [kind |-> "Nil", lexeme |-> <<"n", "i", "l">>],
        [kind |-> "Plus", lexeme |-> <<"+">>],
        [kind |-> "Slash", lexeme |-> <<"/">>] },
      { [kind |-> "Number", lexeme |-> <<"2", ".", "5", "0">>],
        [kind |-> "False", lexeme |-> <<"f", "a", "l", "s", "e">>],
        [kind |-> "Identifier", lexeme |-> <<"a">>],
        [kind |-> "Greater", lexeme |-> <<">">>],
        [kind |-> "GreaterEqual", lexeme |-> <<">", "=">>],
        [kind |-> "LessEqual", lexeme |-> <<"<", "=">>] },
      { [kind |-> "Number", lexeme |-> <<"1">>],
        [kind |-> "Bang", lexeme |-> <<"!">>],
        [kind |-> "Minus", lexeme |-> <<"-">>],
        [kind |-> "Eof", lexeme |-> <<>>] } }

TokensOf(choice) ==
    [i \in 1..(Len(choice) + 1) |->
        IF i <= Len(choice)
        THEN Token(choice[i].kind, choice[i].lexeme, i)
        ELSE Token("Eof", <<>>, i)]

InitParse ==
    /\ NoScanner
    /\ \E A \in TokenAlphabets :
         \E choice \in SeqsUpTo(A, MaxTokens) : NewParser(TokensOf(choice))
    /\ printed = <<>>

NextParse == Parse \/ Productions

SpecParse == InitParse /\ [][NextParse]_vars

(***************************************************************************)
(* impl fmt::Display for Expression (expression.rs) and for Token          *)
(* (token.rs).  A rendering is a sequence of characters.                   *)
(***************************************************************************)
Zeros(n) == [i \in 1..n |-> "0"]

RECURSIVE DigitsOf(_)
DigitsOf(n) ==
    IF n < 10 THEN <<DigitChars[n + 1]>>
    ELSE DigitsOf(n \div 10) \o <<DigitChars[(n % 10) + 1]>>

\* write!(f, "{}", number) of an f64: the shortest decimal that reads back
\* as the same f64, never in exponent form; for the decimals of at most
\* 15 significant digits modelled here that is the decimal itself.
FloatDisplay(v) ==
    LET sign == IF v.neg THEN <<"-">> ELSE <<>>
        d == DigitsOf(v.m)
        k == 0 - v.p
    IN  IF v.kind = "nan" THEN <<"N", "a", "N">>
        ELSE IF v.kind = "inf" THEN sign \o <<"i", "n", "f">>
        ELSE IF v.p >= 0 THEN sign \o d \o Zeros(v.p)
        ELSE IF Len(d) > k
        THEN sign \o SubSeq(d, 1, Len(d) - k) \o <<".">>
                  \o SubSeq(d, Len(d) - k + 1, Len(d))
        ELSE sign \o <<"0", ".">> \o Zeros(k - Len(d)) \o d

\* impl fmt::Display for Token: write!(f, "{}", self.lexeme)
TokenDisplay(token) == token.lexeme

\* Mutant: a Binary is written in infix order.
BinaryInfix(operator, left, right) ==
    <<"(">> \o left \o <<" ">> \o operator \o <<" ">> \o right \o <<")">>

\* write!(f, "({} {} {})", operator, left, right)
BinaryDisplay(operator, left, right) ==
    <<"(">> \o operator \o <<" ">> \o left \o <<" ">> \o right \o <<")">>

\* write!(f, "({} {})", operator, right)
UnaryDisplay(operator, right) ==
    <<"(">> \o operator \o <<" ">> \o right \o <<")">>

\* fmt of Expression, one arm per variant.
RECURSIVE fmt(_)
fmt(e) ==
    CASE e.type = "NumberLiteral" -> FloatDisplay(e.value)
      [] e.type = "StringLiteral" -> <<"'">> \o e.value \o <<"'">>
      [] e.type = "BoolLiteral" ->
            IF e.value THEN <<"t", "r", "u", "e">>
            ELSE <<"f", "a", "l", "s", "e">>
      [] e.type = "NilLiteral" -> <<"n", "i", "l">>
      [] e.type = "Grouping" -> <<"(">> \o fmt(e.inner) \o <<")">>
      [] e.type = "Unary" ->
            UnaryDisplay(TokenDisplay(e.operator), fmt(e.right))
      [] e.type = "Binary" ->
            BinaryDisplay(TokenDisplay(e.operator), fmt(e.left), fmt(e.right))

(***************************************************************************)
(* SpecRun: run() of main.rs on any statement of the alphabet: a fresh     *)
(* Scanner scans it and, when the scan succeeds, a Parser over a copy of   *)
(* the tokens parses them and the expression is printed.  The statements   *)
(* are those over RunAlphabet and the statements of RunExamples.           *)
(***************************************************************************)
RunAlphabet == {"1", ".", "-", "=", "(", ")"}

RunExamples ==
    { <<"1", " ", "=", "=", " ", "2">>,
      <<"(", "1", " ", "+", " ", "2">>,
      <<"1", " ", "2">>,
      <<"1", " ", ")">>,
      <<"1", " ", "*", " ", "2", " ", "3", " ", "+">>,
      <<"(", "1", " ", "+", "\n", "2", "\n">>,
      <<"(", "1", " ", "+", " ", "2", ")", " ", "*", " ", "3">>,
      <<"!", "t", "r", "u", "e", " ", "!", "=", " ", "f", "a", "l", "s", "e">>,
      <<"\"", "a", "b", "\"", " ", "=", "=", " ", "n", "i", "l">>,
      <<"-", "2", ".", "5", "0", " ", "<", " ", "1", "0", "0">>,
      <<"0", ".", "0", "5", " ", "/", " ", "-", "-", "7">> }

\* let mut scanner = Scanner::new(...); match scanner.scan() {
RunScan == Len(results) = 0 /\ ScanBegin

\* Ok(tokens) => { let mut parser = Parser::new(tokens.to_vec());
RunNewParser ==
    /\ spc = "idle"
    /\ Len(results) = 1
    /\ results[1].ok
    /\ ptokens = <<>>
    /\ ptokens' = results[1].tokens
    /\ pcurrent' = 0
    /\ stack' = <<>>
    /\ ret' = NoValue
    /\ presult' = NoValue
    /\ UNCHANGED <<scanVars, printed>>

\* Ok(expression) => println!("Parsed: {}", expression)
RunPrint ==
    /\ presult.tag = "Ok"
    /\ printed = <<>>
    /\ printed' = fmt(presult.val)
    /\ UNCHANGED <<scanVars, parseVars>>

InitRun ==
    /\ \E src \in SeqsUpTo(RunAlphabet, MaxRunLen) \cup RunExamples :
         NewScanner(src)
    /\ NoParser
    /\ printed = <<>>

NextRun ==
    \/ RunScan
    \/ ScanLoop
    \/ ScanEnd
    \/ RunNewParser
    \/ Parse
    \/ Productions
    \/ RunPrint

SpecRun == InitRun /\ [][NextRun]_vars

(***************************************************************************)
(* SpecLex: the scan that run() makes of a statement, for statements over  *)
(* one of the character alphabets and the statements of LexExamples.       *)
(***************************************************************************)
MaxLexLen == 5

LexAlphabets ==
    { {"!", "=", "<", ">"},
      {"1", "2", ".", "x"},
      {"o", "r", "O", "_", "1", " "},
      {"/", "\n", "\"", "a", "1"} }

LexExamples ==
    { <<"\"", "a", "b", "c">>,
      <<"=", "=", "=">>,
      <<"1", ".", "2", ".", "3">>,
      <<"/", "/", " ", "c", "o", "m", "m", "e", "n", "t", "\n", "1">>,
      <<"t", "r", "u", "e">>,
      <<"T", "r", "u", "e">>,
      <<"t", "r", "u", "e", "i", "s", "h">>,
      <<"t", "r", "u", "e", "_">>,
      <<"\"", "\"">> }

InitLex ==
    /\ \E src \in UNION {SeqsUpTo(A, MaxLexLen) : A \in LexAlphabets}
                    \cup LexExamples :
         NewScanner(src)
    /\ NoParser
    /\ printed = <<>>

NextLex == RunScan \/ ScanLoop \/ ScanEnd

SpecLex == InitLex /\ [][NextLex]_vars

\* A call of scan, once made, runs on: its loop and its return are taken.
SpecLexFair == SpecLex /\ WF_vars(NextLex)

(***************************************************************************)
(* What the claims about the Scanner are stated with.                      *)
(***************************************************************************)
\* The first scan of the Scanner has returned and no later one has begun.
FirstScanDone == spc = "idle" /\ Len(results) = 1

\* The number of newline characters among the first pos characters.
NewlinesBefore(src, pos) == Cardinality({i \in 1..pos : src[i] = "\n"})

\* The characters some arm of scan_token's match names.
Recognized ==
    {"(", ")", "{", "}", ",", ".", "-", "+", ";", "*", "!", "=", "<", ">",
     "/", "\"", " ", "\r", "\t", "\n", "_"}
        \cup Digits \cup LowerCase \cup UpperCase

\* The character at index st is dispatched on and is a lexical defect: it is
\* unrecognized, or it opens a string that no later quote closes.
Unrecognized(src, st) == src[st + 1] \notin Recognized

Unterminated(src, st) ==
    src[st + 1] = "\"" /\ \A i \in (st + 2)..Len(src) : src[i] # "\""

\* The indices at which the scan loop dispatches (the values start takes).
RECURSIVE Starts(_, _)
Starts(src, st) ==
    IF at_end(src, st) THEN <<>>
    ELSE <<st>> \o Starts(src, scan_token(src, <<>>, st, 1).current)

\* The dispatch indices that are lexical defects, in source order.
Defects(src) ==
    SelectSeq(Starts(src, 0),
              LAMBDA st : Unrecognized(src, st) \/ Unterminated(src, st))

\* The source with every unrecognized dispatched character made a space.
Blanked(src) ==
    LET bad == {st \in 0..(Len(src) - 1) :
                   /\ \E i \in 1..Len(Starts(src, 0)) : Starts(src, 0)[i] = st
                   /\ Unrecognized(src, st)}
    IN  [i \in 1..Len(src) |-> IF (i - 1) \in bad THEN " " ELSE src[i]]

\* The token sequence a whole scan of src accumulates.
RECURSIVE ScanTokens(_, _, _, _)
ScanTokens(src, toks, cur, ln) ==
    IF at_end(src, cur) THEN push_token(toks, "Eof", <<>>, ln)
    ELSE LET out == scan_token(src, toks, cur, ln)
         IN  ScanTokens(src, out.tokens, out.current, out.line)

(***************************************************************************)
(* C1: when the first scan of a fresh Scanner finishes, whatever the       *)
(* source, the accumulated tokens end with an Eof token of empty lexeme,   *)
(* no other token is Eof, and for the empty source the tokens are exactly  *)
(* [Eof] at line 1.                                                        *)
(***************************************************************************)
C1_EofTerminated ==
    FirstScanDone =>
        /\ Len(tokens) >= 1
        /\ Last(tokens).kind = "Eof"
        /\ Last(tokens).lexeme = <<>>
        /\ \A i \in 1..(Len(tokens) - 1) : tokens[i].kind # "Eof"
        /\ (source = <<>> => tokens = <<Token("Eof", <<>>, 1)>>)

\* A scan with a lexical error that still accumulated tokens before Eof.
C1_Witness ==
    /\ FirstScanDone
    /\ ~results[1].ok
    /\ Len(tokens) >= 2
    /\ Last(tokens).kind = "Eof"

(***************************************************************************)
(* C2: scanning is collect-all.  When every lexical defect of the source   *)
(* is an unrecognized character (the tokens are otherwise valid), the      *)
(* first scan produces one diagnostic per such character, in source order, *)
(* each naming its character and carrying as line 1 plus the number of     *)
(* newlines before it, and the tokens accumulated are those of the source  *)
(* with the bad characters blanked: every valid token is still produced.   *)
(***************************************************************************)
C2_Diagnostics(withLine) ==
    LET D == Defects(source)
    IN  (/\ FirstScanDone
         /\ \A i \in 1..Len(D) : Unrecognized(source, D[i]))
        => /\ Len(errors) = Len(D)
           /\ \A i \in 1..Len(D) :
                /\ errors[i].message =
                       <<"Unexpected token", <<source[D[i] + 1]>>>>
                /\ withLine =>
                       errors[i].line = 1 + NewlinesBefore(source, D[i])
           /\ tokens = ScanTokens(Blanked(source), <<>>, 0, 1)

C2_CollectAll == C2_Diagnostics(TRUE)

\* The part of C2 that does not speak of the diagnostic's line.
C2_CollectAllButLine == C2_Diagnostics(FALSE)

(***************************************************************************)
(* C3: the first scan of a fresh Scanner returns the token sequence        *)
(* exactly when no dispatch of the scan was a lexical defect; otherwise    *)
(* it returns no tokens and the diagnostics, one per defect, in the order  *)
(* the defects occur.                                                      *)
(***************************************************************************)
C3_TokensOrAllErrors ==
    Len(results) >= 1 =>
        LET r == results[1]
            D == Defects(source)
        IN  /\ r.ok <=> D = <<>>
            /\ r.ok => r.errors = <<>> /\ r.tokens = ScanTokens(source, <<>>, 0, 1)
            /\ ~r.ok =>
                 /\ r.tokens = <<>>
                 /\ Len(r.errors) = Len(D)
                 /\ Len(r.errors) >= 1
                 /\ \A i \in 1..Len(D) :
                      r.errors[i].message =
                          IF Unrecognized(source, D[i])
                          THEN <<"Unexpected token", <<source[D[i] + 1]>>>>
                          ELSE <<"Unterminated string",
                                 SubSeq(source, D[i] + 1, Len(source))>>

\* A scan that failed with two different diagnostics.
C3_Witness ==
    /\ Len(results) >= 1
    /\ ~results[1].ok
    /\ Len(results[1].errors) >= 2
    /\ results[1].errors[1].message[1] # results[1].errors[2].message[1]

(***************************************************************************)
(* C4: every token scan_token pushes during the first scan carries as its  *)
(* line the source line its first character is on: 1 plus the number of    *)
(* newline characters before that character, also after a string literal  *)
(* that holds a newline.                                                   *)
(***************************************************************************)
C4_TokenLine ==
    [][(/\ Len(results) = 0
        /\ spc = "loop" /\ spc' = "loop"
        /\ Len(tokens') = Len(tokens) + 1)
       => Last(tokens').line = 1 + NewlinesBefore(source, start')]_vars

\* No string literal scanned so far holds a newline.
NoMultilineString ==
    \A i \in 1..Len(tokens) :
        tokens[i].kind = "Str" =>
            \A j \in 1..Len(tokens[i].lexeme) : tokens[i].lexeme[j] # "\n"

\* C4 where no earlier string literal holds a newline.
C4_TokenLineSingleLineStrings ==
    [][(/\ Len(results) = 0
        /\ spc = "loop" /\ spc' = "loop"
        /\ Len(tokens') = Len(tokens) + 1
        /\ NoMultilineString)
       => Last(tokens').line = 1 + NewlinesBefore(source, start')]_vars

(***************************************************************************)
(* C5: invocations retain no state: a second scan on the same Scanner      *)
(* returns what the first returned (the same tokens when it succeeded,     *)
(* the same diagnostics when it failed).                                   *)
(***************************************************************************)
C5_SecondScanSame ==
    Len(results) >= 2 => results[2] = results[1]

(***************************************************************************)
(* What the code does instead: tokens, current and line are fields of the  *)
(* Scanner and scan does not reset them.  Every later scan on the same     *)
(* Scanner consumes no character, appends one more Eof token and returns   *)
(* Ok with the accumulated tokens and no diagnostics, also when the first  *)
(* scan failed.                                                            *)
(***************************************************************************)
C5_LaterScansAppendEof ==
    \A k \in 2..Len(results) :
        LET r == results[k]
            first == ScanTokens(source, <<>>, 0, 1)
        IN  /\ r.ok
            /\ r.errors = <<>>
            /\ Len(r.tokens) = Len(first) + (k - 1)
            /\ SubSeq(r.tokens, 1, Len(first)) = first
            /\ \A i \in (Len(first) + 1)..Len(r.tokens) :
                 r.tokens[i] = Last(first)
            /\ r # results[1]
            /\ current = Len(source)

\* A second scan has returned on a Scanner whose first scan failed.
SecondScanAfterFailure ==
    /\ Len(results) >= 2
    /\ ~results[1].ok
    /\ spc = "idle"

(***************************************************************************)
(* What the claims about the Parser are stated with.                       *)
(***************************************************************************)
EqualityOps == {"BangEqual", "EqualEqual"}

\* The binding level of a binary operator kind: 1 binds loosest.
Level(kind) ==
    CASE kind \in EqualityOps -> 1
      [] kind \in {"Greater", "GreaterEqual", "Less", "LessEqual"} -> 2
      [] kind \in {"Minus", "Plus"} -> 3
      [] kind \in {"Slash", "Star"} -> 4
      [] OTHER -> 0

IsBinary(e) == e.type = "Binary"

\* A token that is a literal primary on its own, and its expression.
IsLiteralToken(t) ==
    \/ t.kind \in {"True", "False", "Nil", "Str"}
    \/ t.kind = "Number" /\ ParseFloatOk(t.lexeme)

Literal(t) ==
    CASE t.kind = "True" -> BoolLiteral(TRUE)
      [] t.kind = "False" -> BoolLiteral(FALSE)
      [] t.kind = "Nil" -> NilLiteral
      [] t.kind = "Str" -> StringLiteral(t.lexeme)
      [] t.kind = "Number" -> NumberLiteral(ParseFloat(t.lexeme))

\* The kinds of the tokens before Eof.
Kinds(toks) == [i \in 1..(Len(toks) - 1) |-> toks[i].kind]

\* parse has returned.
Parsed == presult # NoValue

\* The nodes of e, the root first.
RECURSIVE Nodes(_)
Nodes(e) ==
    <<e>> \o
        CASE e.type = "Binary" -> Nodes(e.left) \o Nodes(e.right)
          [] e.type = "Unary" -> Nodes(e.right)
          [] e.type = "Grouping" -> Nodes(e.inner)
          [] OTHER -> <<>>

\* The diagnostic e is the one the code builds with the cursor at cur.
RaisedAt(e, toks, cur) ==
    CASE e.message[1] = "Could not parse number" ->
            /\ cur >= 1
            /\ previous(toks, cur).kind = "Number"
            /\ e.line = previous(toks, cur).line
            /\ e.message[2] = previous(toks, cur).lexeme
      [] e.message[1] = "Unknown primary" ->
            /\ e.line = peek(toks, cur).line
            /\ e.message[2] = peek(toks, cur).lexeme
      [] e.message[1] = "Unexpected token. expected" ->
            /\ e.line = peek(toks, cur).line
            /\ e.message[3] = peek(toks, cur).kind
      [] OTHER -> FALSE

(***************************************************************************)
(* C6: parsing is fail-fast.  From the step at which a production raises   *)
(* a diagnostic, every step only returns that same diagnostic one call up  *)
(* (no call is made, the cursor does not move), parse returns it           *)
(* unchanged, and it is the only one: when parse returns a diagnostic the  *)
(* cursor is still at the token it was raised at.                          *)
(***************************************************************************)
C6_FailFast ==
    [][/\ (ret.tag = "Err" /\ stack # <<>>) =>
            /\ pcurrent' = pcurrent
            /\ stack' = SubSeq(stack, 1, Len(stack) - 1)
            /\ ret' = ret
            /\ presult' = IF stack' = <<>> THEN ret ELSE NoValue
       /\ (ret.tag # "Err" /\ ret'.tag = "Err") =>
            RaisedAt(ret'.val, ptokens, pcurrent')
       /\ (presult' # presult) =>
            /\ presult' = ret
            /\ presult'.tag \in {"Ok", "Err"}
            /\ presult'.tag = "Err" =>
                   RaisedAt(presult'.val, ptokens', pcurrent')]_vars

\* parse returned the diagnostic of a consume that failed several calls deep.
C6_Witness ==
    /\ Parsed
    /\ presult.tag = "Err"
    /\ presult.val.message[1] = "Unexpected token. expected"
    /\ pcurrent >= 4
    /\ ~is_at_end(ptokens, pcurrent)

(***************************************************************************)
(* C7: every binary level is left-associative.  In a tree parse returns,   *)
(* the right child of a Binary node is never a Binary node of the same     *)
(* level; and operands a1 op1 a2 ... an (literals, operators all of one    *)
(* level) give the left-leaning chain Binary{Binary{a1, op1, a2}, ...}.    *)
(***************************************************************************)
RightNotSameLevel(e) ==
    IsBinary(e) =>
        ~(/\ IsBinary(e.right)
          /\ Level(e.right.operator.kind) = Level(e.operator.kind))

\* The tokens before Eof are a1 op1 a2 ... an with operators of one level.
IsChain(toks) ==
    LET n == Len(toks) - 1
    IN  /\ n >= 1
        /\ n % 2 = 1
        /\ \A i \in 1..n :
             IF i % 2 = 1 THEN IsLiteralToken(toks[i])
             ELSE /\ Level(toks[i].kind) # 0
                  /\ Level(toks[i].kind) = Level(toks[2].kind)

RECURSIVE LeftChain(_, _)
LeftChain(toks, n) ==
    IF n = 1 THEN Literal(toks[1])
    ELSE Binary(LeftChain(toks, n - 2), toks[n - 1], Literal(toks[n]))

C7_LeftAssociative ==
    (Parsed /\ presult.tag = "Ok") =>
        /\ \A i \in 1..Len(Nodes(presult.val)) :
               RightNotSameLevel(Nodes(presult.val)[i])
        /\ IsChain(ptokens) =>
               presult.val = LeftChain(ptokens, Len(ptokens) - 1)

\* a1 op1 a2 op2 a3 with two different operators of one level was parsed.
C7_Witness ==
    /\ Parsed
    /\ presult.tag = "Ok"
    /\ IsChain(ptokens)
    /\ Len(ptokens) = 6
    /\ ptokens[2].kind # ptokens[4].kind
    /\ IsBinary(presult.val) /\ IsBinary(presult.val.left)

(***************************************************************************)
(* C8: the trees parse returns respect the precedence of the levels.  No   *)
(* Binary node has, unwrapped, a Binary child of a lower-binding level,    *)
(* and the operand of a Unary node is never a Binary node;  a + b * c is   *)
(* Binary{a, +, Binary{b, *, c}} and  - a * b  is Binary{Unary{-, a}, *,   *)
(* b}.                                                                     *)
(***************************************************************************)
RespectsPrecedence(e) ==
    /\ IsBinary(e) =>
         /\ IsBinary(e.left) =>
              Level(e.left.operator.kind) >= Level(e.operator.kind)
         /\ IsBinary(e.right) =>
              Level(e.right.operator.kind) >= Level(e.operator.kind)
    /\ e.type = "Unary" => ~IsBinary(e.right)

\* a addop b mulop c
IsSumOfProduct(toks) ==
    /\ Len(toks) = 6
    /\ \A i \in {1, 3, 5} : IsLiteralToken(toks[i])
    /\ Level(toks[2].kind) = 3
    /\ Level(toks[4].kind) = 4

\* unaryop a mulop b
IsProductOfUnary(toks) ==
    /\ Len(toks) = 5
    /\ toks[1].kind \in {"Bang", "Minus"}
    /\ \A i \in {2, 4} : IsLiteralToken(toks[i])
    /\ Level(toks[3].kind) = 4

C8_Precedence ==
    (Parsed /\ presult.tag = "Ok") =>
        /\ \A i \in 1..Len(Nodes(presult.val)) :
               RespectsPrecedence(Nodes(presult.val)[i])
        /\ IsSumOfProduct(ptokens) =>
               presult.val =
                   Binary(Literal(ptokens[1]), ptokens[2],
                          Binary(Literal(ptokens[3]), ptokens[4],
                                 Literal(ptokens[5])))
        /\ IsProductOfUnary(ptokens) =>
               presult.val =
                   Binary(Unary(ptokens[1], Literal(ptokens[2])), ptokens[3],
                          Literal(ptokens[4]))

\* A sum of a product was parsed.
C8_Witness ==
    /\ Parsed
    /\ presult.tag = "Ok"
    /\ IsSumOfProduct(ptokens)
    /\ IsBinary(presult.val) /\ IsBinary(presult.val.right)

(***************************************************************************)
(* C9: the group production parses a comparison, not an equality.  When    *)
(* the comparison inside "(" has been parsed and the next token is == or   *)
(* !=, consume fails: parse returns 'Unexpected token', expected           *)
(* RightParen, got that operator, at the operator's line;  ( a == b )      *)
(* fails so while  a == b  parses; and no Grouping that parse returns      *)
(* holds directly a Binary node whose operator is == or !=.                *)
(***************************************************************************)
GroupHoldsNoEquality(e) ==
    e.type = "Grouping" =>
        ~(IsBinary(e.inner) /\ e.inner.operator.kind \in EqualityOps)

\* ( a eqop b )
IsGroupedEquality(toks) ==
    /\ Len(toks) = 6
    /\ toks[1].kind = "LeftParen"
    /\ IsLiteralToken(toks[2])
    /\ toks[3].kind \in EqualityOps
    /\ IsLiteralToken(toks[4])
    /\ toks[5].kind = "RightParen"

\* a eqop b
IsEquality(toks) ==
    /\ Len(toks) = 4
    /\ IsLiteralToken(toks[1])
    /\ toks[2].kind \in EqualityOps
    /\ IsLiteralToken(toks[3])

ExpectedRightParen(token) ==
    Err(LoxErr(token.line,
               <<"Unexpected token. expected", "RightParen", token.kind>>))

C9_GroupParsesComparison ==
    /\ [](Parsed =>
            /\ presult.tag = "Ok" =>
                   \A i \in 1..Len(Nodes(presult.val)) :
               GroupHoldsNoEquality(Nodes(presult.val)[i])
            /\ IsGroupedEquality(ptokens) =>
                   /\ presult = ExpectedRightParen(ptokens[3])
                   /\ pcurrent = 2
            /\ IsEquality(ptokens) =>
                   presult = Ok(Binary(Literal(ptokens[1]), ptokens[2],
                                       Literal(ptokens[3]))))
    /\ [][(/\ Running("primary")
           /\ Top.pc = "group"
           /\ ret.tag = "Ok"
           /\ peek(ptokens, pcurrent).kind \in EqualityOps)
          => /\ ret' = ExpectedRightParen(peek(ptokens, pcurrent))
             /\ pcurrent' = pcurrent]_vars

\* ( a == b ) and ( a != b ) with a comparison for a were refused.
C9_Witness ==
    /\ Parsed
    /\ ptokens[1].kind = "LeftParen"
    /\ Len(ptokens) >= 5
    /\ pcurrent >= 2
    /\ peek(ptokens, pcurrent).kind \in EqualityOps
    /\ presult = ExpectedRightParen(peek(ptokens, pcurrent))

(***************************************************************************)
(* C10: on the tokens of a source that scan accepts, parse never raises    *)
(* 'Could not parse number': every Number token the Scanner pushes has a   *)
(* lexeme that parses as a float.                                          *)
(***************************************************************************)
C10_NumbersParse ==
    /\ \A i \in 1..Len(tokens) :
         tokens[i].kind = "Number" => ParseFloatOk(tokens[i].lexeme)
    /\ ret.tag = "Err" => ret.val.message[1] # "Could not parse number"
    /\ presult.tag = "Err" =>
         presult.val.message[1] # "Could not parse number"

\* run() parsed the negation of a number with a fraction.
C10_Witness ==
    /\ Parsed
    /\ presult.tag = "Ok"
    /\ \E i \in 1..Len(ptokens) :
         /\ ptokens[i].kind = "Number"
         /\ Len(ptokens[i].lexeme) = 3
    /\ presult.val.type = "Unary"
    /\ presult.val.right.type = "NumberLiteral"
    /\ presult.val.right.value.p = 0 - 1

\* The branch exists: a Number token of another origin can fail to parse.
CouldNotParseNumberReachable ==
    ~(presult.tag = "Err" /\ presult.val.message[1] = "Could not parse number")

(***************************************************************************)
(* C11: an expression is rendered in operator-prefix notation, node by     *)
(* node: a Binary as "(" operator lexeme, space, left, space, right ")",   *)
(* a Unary as "(" operator lexeme, space, operand ")", a Grouping as "("   *)
(* inner ")", a StringLiteral between single quotes, a BoolLiteral as      *)
(* true or false, a NilLiteral as nil; run() on "1 == 2" prints            *)
(* "(== 1 2)".                                                             *)
(***************************************************************************)
\* The text the notation gives a node, from the texts of its children.
PrefixText(e) ==
    CASE e.type = "Binary" ->
            <<"(">> \o e.operator.lexeme \o <<" ">> \o fmt(e.left)
                    \o <<" ">> \o fmt(e.right) \o <<")">>
      [] e.type = "Unary" ->
            <<"(">> \o e.operator.lexeme \o <<" ">> \o fmt(e.right) \o <<")">>
      [] e.type = "Grouping" -> <<"(">> \o fmt(e.inner) \o <<")">>
      [] e.type = "StringLiteral" -> <<"'">> \o e.value \o <<"'">>
      [] e.type = "BoolLiteral" /\ e.value -> <<"t", "r", "u", "e">>
      [] e.type = "BoolLiteral" /\ ~e.value -> <<"f", "a", "l", "s", "e">>
      [] e.type = "NilLiteral" -> <<"n", "i", "l">>
      [] e.type = "NumberLiteral" -> fmt(e)

\* The text the notation gives the statements that are two literals around
\* one operator, one operator before a literal, or one literal in
\* parentheses, read off the tokens; RunAlphabet writes every number in the
\* form in which an f64 is displayed.
FlatText(toks) ==
    LET k == Kinds(toks)
    IN  IF Len(k) = 3 /\ k[1] = "Number" /\ k[2] \in {"Minus", "EqualEqual"}
           /\ k[3] = "Number"
        THEN <<"(">> \o toks[2].lexeme \o <<" ">> \o toks[1].lexeme
                     \o <<" ">> \o toks[3].lexeme \o <<")">>
        ELSE IF Len(k) = 2 /\ k[1] = "Minus" /\ k[2] = "Number"
        THEN <<"(">> \o toks[1].lexeme \o <<" ">> \o toks[2].lexeme \o <<")">>
        ELSE IF Len(k) = 3 /\ k[1] = "LeftParen" /\ k[2] = "Number"
                /\ k[3] = "RightParen"
        THEN <<"(">> \o toks[2].lexeme \o <<")">>
        ELSE <<>>

\* The statements of RunExamples that parse, each with its text.
RunExpected ==
    { << <<"1", " ", "=", "=", " ", "2">>,
         <<"(", "=", "=", " ", "1", " ", "2", ")">> >>,
      << <<"(", "1", " ", "+", " ", "2", ")", " ", "*", " ", "3">>,
         <<"(", "*", " ", "(", "(", "+", " ", "1", " ", "2", ")", ")",
           " ", "3", ")">> >>,
      << <<"!", "t", "r", "u", "e", " ", "!", "=", " ",
           "f", "a", "l", "s", "e">>,
         <<"(", "!", "=", " ", "(", "!", " ", "t", "r", "u", "e", ")", " ",
           "f", "a", "l", "s", "e", ")">> >>,
      << <<"\"", "a", "b", "\"", " ", "=", "=", " ", "n", "i", "l">>,
         <<"(", "=", "=", " ", "'", "a", "b", "'", " ", "n", "i", "l", ")">> >>,
      << <<"-", "2", ".", "5", "0", " ", "<", " ", "1", "0", "0">>,
         <<"(", "<", " ", "(", "-", " ", "2", ".", "5", ")", " ",
           "1", "0", "0", ")">> >>,
      << <<"0", ".", "0", "5", " ", "/", " ", "-", "-", "7">>,
         <<"(", "/", " ", "0", ".", "0", "5", " ", "(", "-", " ",
           "(", "-", " ", "7", ")", ")", ")">> >> }

C11_PrefixRendering ==
    printed # <<>> =>
        /\ \A i \in 1..Len(Nodes(presult.val)) :
             fmt(Nodes(presult.val)[i]) = PrefixText(Nodes(presult.val)[i])
        /\ source \notin RunExamples /\ FlatText(ptokens) # <<>> =>
             printed = FlatText(ptokens)
        /\ \A x \in RunExpected : source = x[1] => printed = x[2]

\* run() has printed the expression of "1 == 2".
C11_Witness ==
    /\ source = <<"1", " ", "=", "=", " ", "2">>
    /\ presult.tag = "Ok"
    /\ presult.val.type = "Binary"
    /\ printed # <<>>

(***************************************************************************)
(* C12: when the character scanned is '"' and no '"' follows, scan_token   *)
(* consumes the rest of the input, pushes no token, leaves the line        *)
(* counter alone whatever newlines it passed, and returns 'Unterminated    *)
(* string' with the line counter of the opening quote; the scan of "abc    *)
(* with its opening quote only fails with exactly one diagnostic, on       *)
(* line 1.                                                                 *)
(***************************************************************************)
\* scan_token is about to scan an opening quote that is never closed.
AtUnclosedQuote ==
    /\ spc = "loop"
    /\ current < Len(source)
    /\ source[current + 1] = "\""
    /\ \A i \in (current + 2)..Len(source) : source[i] # "\""

C12_UnterminatedString ==
    /\ [][AtUnclosedQuote =>
            /\ current' = Len(source)
            /\ tokens' = tokens
            /\ line' = line
            /\ errors' = Append(errors,
                   [line |-> line,
                    message |-> <<"Unterminated string",
                                  SubSeq(source, current + 1, Len(source))>>])
         ]_vars
    /\ [](source = <<"\"", "a", "b", "c">> /\ FirstScanDone =>
            /\ ~results[1].ok
            /\ Len(results[1].errors) = 1
            /\ results[1].errors[1].line = 1
            /\ results[1].errors[1].message[1] = "Unterminated string")

\* The scan of "abc with its opening quote only has returned.
C12_Witness ==
    /\ source = <<"\"", "a", "b", "c">>
    /\ FirstScanDone
    /\ Len(results[1].errors) = 1

\* An unterminated string that holds a newline has been scanned.
UnterminatedOverNewline ==
    /\ spc = "loop"
    /\ errors # <<>>
    /\ Last(errors).message[1] = "Unterminated string"
    /\ "\n" \in {Last(errors).message[2][i] :
                    i \in 1..Len(Last(errors).message[2])}

(***************************************************************************)
(* C13: when the character scanned is '!', '=', '<' or '>', scan_token     *)
(* consumes a following '=' too and pushes the two-character token with    *)
(* the two-character lexeme; otherwise, at the end of the input too, it    *)
(* pushes the one-character token and leaves the next character            *)
(* unconsumed.  "===" scans to EqualEqual, Equal and a final "!" to Bang.  *)
(***************************************************************************)
OneCharKind(c) ==
    CASE c = "!" -> "Bang" [] c = "=" -> "Equal"
      [] c = "<" -> "Less" [] c = ">" -> "Greater"

TwoCharKind(c) ==
    CASE c = "!" -> "BangEqual" [] c = "=" -> "EqualEqual"
      [] c = "<" -> "LessEqual" [] c = ">" -> "GreaterEqual"

\* scan_token is about to scan one of the four characters.
AtOperatorStart ==
    /\ spc = "loop"
    /\ current < Len(source)
    /\ source[current + 1] \in {"!", "=", "<", ">"}

C13_OneOrTwoCharOperators ==
    /\ [][AtOperatorStart =>
            LET c == source[current + 1]
                two == current + 2 <= Len(source) /\ source[current + 2] = "="
            IN  /\ two =>
                      /\ current' = current + 2
                      /\ tokens' = Append(tokens,
                             [kind |-> TwoCharKind(c), lexeme |-> <<c, "=">>,
                              line |-> line])
                /\ ~two =>
                      /\ current' = current + 1
                      /\ tokens' = Append(tokens,
                             [kind |-> OneCharKind(c), lexeme |-> <<c>>,
                              line |-> line])
                /\ errors' = errors
                /\ line' = line
         ]_vars
    /\ [](FirstScanDone /\ source = <<"=", "=", "=">> =>
            /\ results[1].ok
            /\ Kinds(results[1].tokens) = <<"EqualEqual", "Equal">>)
    /\ [](FirstScanDone /\ source # <<>> /\ Last(source) = "!" =>
            /\ results[1].ok
            /\ Last(Kinds(results[1].tokens)) = "Bang")

\* "===" has been scanned.
C13_Witness ==
    /\ FirstScanDone
    /\ source = <<"=", "=", "=">>
    /\ Len(results[1].tokens) = 3

\* A statement ending in "!" has been scanned.
FinalBangScanned ==
    /\ FirstScanDone
    /\ Len(source) = 3
    /\ Last(source) = "!"
    /\ results[1].ok
    /\ results[1].tokens[Len(results[1].tokens) - 1].kind = "Bang"

(***************************************************************************)
(* C14: when the character scanned is a digit, the Number lexeme is the    *)
(* longest prefix of the rest of the input that is digits, or digits '.'   *)
(* digits; a '.' that no digit follows is left to be scanned as Dot.       *)
(* "1.2.3" scans to Number 1.2, Dot, Number 3.                             *)
(***************************************************************************)
\* s is digits, or digits '.' digits.
IsNumberText(s) ==
    \/ Len(s) >= 1 /\ \A i \in 1..Len(s) : s[i] \in Digits
    \/ \E d \in 2..(Len(s) - 1) :
         /\ s[d] = "."
         /\ \A i \in 1..Len(s) : i # d => s[i] \in Digits

\* The end of the longest prefix of src after st that is a number text.
LongestNumber(src, st) ==
    CHOOSE n \in (st + 1)..Len(src) :
        /\ IsNumberText(SubSeq(src, st + 1, n))
        /\ \A m \in (n + 1)..Len(src) : ~IsNumberText(SubSeq(src, st + 1, m))

AtDigit == spc = "loop" /\ current < Len(source) /\ source[current + 1] \in Digits

AtDot == spc = "loop" /\ current < Len(source) /\ source[current + 1] = "."

C14_LongestNumber ==
    /\ [][AtDigit =>
            LET n == LongestNumber(source, current)
            IN  /\ current' = n
                /\ tokens' = Append(tokens,
                       [kind |-> "Number",
                        lexeme |-> SubSeq(source, current + 1, n),
                        line |-> line])
                /\ errors' = errors
         ]_vars
    /\ [][AtDot =>
            /\ current' = current + 1
            /\ tokens' = Append(tokens,
                   [kind |-> "Dot", lexeme |-> <<".">>, line |-> line])
         ]_vars
    /\ [](FirstScanDone /\ source = <<"1", ".", "2", ".", "3">> =>
            results[1].tokens =
                <<Token("Number", <<"1", ".", "2">>, 1),
                  Token("Dot", <<".">>, 1),
                  Token("Number", <<"3">>, 1),
                  Token("Eof", <<>>, 1)>>)

\* "1.2.3" has been scanned.
C14_Witness ==
    /\ FirstScanDone
    /\ source = <<"1", ".", "2", ".", "3">>
    /\ results[1].ok

\* A number ended before a '.' that no digit follows, and the '.' became
\* a Dot.
DotAfterNumber ==
    /\ FirstScanDone
    /\ source = <<"1", "2", ".", "x">>
    /\ Kinds(results[1].tokens) = <<"Number", "Dot", "Identifier">>

(***************************************************************************)
(* C15: when the character scanned is '/' and the next is '/', scan_token  *)
(* consumes up to, not including, the next newline (or to the end of the   *)
(* input) and pushes no token; the newline is then scanned as any newline  *)
(* and increments line.  A '/' that no '/' follows is pushed as Slash.     *)
(* "// comment", newline, "1" scans to Number 1 on line 2, Eof.            *)
(***************************************************************************)
AtSlash == spc = "loop" /\ current < Len(source) /\ source[current + 1] = "/"

AtNewline == spc = "loop" /\ current < Len(source) /\ source[current + 1] = "\n"

\* The number of characters of src before the first newline after
\* position st, Len(src) when there is none.
LineEnd(src, st) ==
    IF \E j \in (st + 1)..Len(src) : src[j] = "\n"
    THEN (CHOOSE j \in (st + 1)..Len(src) :
              /\ src[j] = "\n"
              /\ \A i \in (st + 1)..(j - 1) : src[i] # "\n") - 1
    ELSE Len(src)

C15_LineComment ==
    /\ [][AtSlash =>
            IF current + 2 <= Len(source) /\ source[current + 2] = "/"
            THEN /\ current' = LineEnd(source, current)
                 /\ tokens' = tokens
                 /\ line' = line
                 /\ errors' = errors
            ELSE /\ current' = current + 1
                 /\ tokens' = Append(tokens,
                        [kind |-> "Slash", lexeme |-> <<"/">>, line |-> line])
                 /\ line' = line
                 /\ errors' = errors
         ]_vars
    /\ [][AtNewline =>
            /\ current' = current + 1
            /\ line' = line + 1
            /\ tokens' = tokens
            /\ errors' = errors
         ]_vars
    /\ [](FirstScanDone
            /\ source = <<"/", "/", " ", "c", "o", "m", "m", "e", "n", "t",
                          "\n", "1">>
            => results[1].tokens = <<Token("Number", <<"1">>, 2),
                                     Token("Eof", <<>>, 2)>>)

\* "// comment", newline, "1" has been scanned.
C15_Witness ==
    /\ FirstScanDone
    /\ source = <<"/", "/", " ", "c", "o", "m", "m", "e", "n", "t", "\n", "1">>
    /\ results[1].ok

\* A comment ran to the end of the input, after a Slash.
CommentToTheEnd ==
    /\ FirstScanDone
    /\ source = <<"1", "/", "1", "/", "/">>
    /\ Kinds(results[1].tokens) = <<"Number", "Slash", "Number">>

(***************************************************************************)
(* C16: when the character scanned is a letter or '_', the lexeme is the   *)
(* maximal run of letters, digits and '_' from there; the token has a      *)
(* keyword kind exactly when the whole lexeme is, case and all, one of     *)
(* the 16 reserved words, and is an Identifier otherwise.  "true" scans    *)
(* to True; "True", "trueish" and "true_" scan to Identifier.              *)
(***************************************************************************)
WordChars == LowerCase \cup UpperCase \cup Digits \cup {"_"}

AtWordStart ==
    /\ spc = "loop"
    /\ current < Len(source)
    /\ source[current + 1] \in LowerCase \cup UpperCase \cup {"_"}

\* The end of the maximal run of word characters of src after st.
WordEnd(src, st) ==
    CHOOSE n \in (st + 1)..Len(src) :
        /\ \A i \in (st + 1)..n : src[i] \in WordChars
        /\ n < Len(src) => src[n + 1] \notin WordChars

ReservedWords == {r.word : r \in Reserved}

KeywordKinds == {r.kind : r \in Reserved}

\* The one token of a scan that pushed one token before Eof.
OnlyToken == results[1].tokens[1]

C16_Words ==
    /\ [][AtWordStart =>
            LET n == WordEnd(source, current)
                word == SubSeq(source, current + 1, n)
            IN  /\ current' = n
                /\ Len(tokens') = Len(tokens) + 1
                /\ SubSeq(tokens', 1, Len(tokens)) = tokens
                /\ Last(tokens').lexeme = word
                /\ Last(tokens').line = line
                /\ Last(tokens').kind \in KeywordKinds <=> word \in ReservedWords
                /\ Last(tokens').kind # "Identifier" <=> word \in ReservedWords
                /\ \A r \in Reserved :
                     word = r.word => Last(tokens').kind = r.kind
                /\ errors' = errors
         ]_vars
    /\ [](Cardinality(ReservedWords) = 16 /\ Cardinality(KeywordKinds) = 16)
    /\ [](FirstScanDone /\ source = <<"t", "r", "u", "e">> =>
            Len(results[1].tokens) = 2 /\ OnlyToken.kind = "True")
    /\ [](FirstScanDone
            /\ source \in {<<"T", "r", "u", "e">>,
                           <<"t", "r", "u", "e", "i", "s", "h">>,
                           <<"t", "r", "u", "e", "_">>}
            => /\ Len(results[1].tokens) = 2
               /\ OnlyToken.kind = "Identifier"
               /\ OnlyToken.lexeme = source)

\* "trueish" has been scanned.
C16_Witness ==
    /\ FirstScanDone
    /\ source = <<"t", "r", "u", "e", "i", "s", "h">>
    /\ results[1].ok

\* A reserved word and a longer word have been scanned in one statement.
KeywordBesideIdentifier ==
    /\ FirstScanDone
    /\ source = <<"o", "r", " ", "O", "r">>
    /\ Kinds(results[1].tokens) = <<"Or", "Identifier">>

(***************************************************************************)
(* C17: when the character scanned is '"' and a '"' follows, scan_token    *)
(* pushes one Str token whose lexeme is the characters strictly between    *)
(* the opening quote and the next quote, so never holds a '"', and         *)
(* scanning resumes after the closing quote; two quotes in a row give the  *)
(* empty lexeme.                                                           *)
(***************************************************************************)
AtClosedQuote ==
    /\ spc = "loop"
    /\ current < Len(source)
    /\ source[current + 1] = "\""
    /\ \E j \in (current + 2)..Len(source) : source[j] = "\""

\* The index in src of the first quote after the one at st + 1.
NextQuote(src, st) ==
    CHOOSE j \in (st + 2)..Len(src) :
        /\ src[j] = "\""
        /\ \A i \in (st + 2)..(j - 1) : src[i] # "\""

C17_StringLiteral ==
    /\ [][AtClosedQuote =>
            LET j == NextQuote(source, current)
            IN  /\ current' = j
                /\ Len(tokens') = Len(tokens) + 1
                /\ SubSeq(tokens', 1, Len(tokens)) = tokens
                /\ Last(tokens').kind = "Str"
                /\ Last(tokens').lexeme = SubSeq(source, current + 2, j - 1)
                /\ \A i \in 1..Len(Last(tokens').lexeme) :
                     Last(tokens').lexeme[i] # "\""
                /\ errors' = errors
         ]_vars
    /\ [](FirstScanDone /\ source = <<"\"", "\"">> =>
            /\ results[1].ok
            /\ Kinds(results[1].tokens) = <<"Str">>
            /\ OnlyToken.lexeme = <<>>)

\* Two quotes in a row have been scanned.
C17_Witness ==
    /\ FirstScanDone
    /\ source = <<"\"", "\"">>
    /\ Len(results[1].tokens) = 2

\* A string of two lines has been scanned, and a number after it.
StringThenNumber ==
    /\ FirstScanDone
    /\ source = <<"\"", "a", "\n", "\"", "1">>
    /\ Kinds(results[1].tokens) = <<"Str", "Number">>
    /\ OnlyToken.lexeme = <<"a", "\n">>

(***************************************************************************)
(* C18: throughout a parse of tokens that end in Eof the token sequence    *)
(* is unchanged, the cursor never decreases and moves by one token at a    *)
(* time, only over a token that is not Eof, so it never passes the first   *)
(* Eof, and the tokens at the cursor and before a moved cursor exist.      *)
(***************************************************************************)
\* The index in toks of its first Eof token.
FirstEof(toks) ==
    CHOOSE i \in 1..Len(toks) :
        /\ toks[i].kind = "Eof"
        /\ \A j \in 1..(i - 1) : toks[j].kind # "Eof"

C18_CursorInBounds ==
    /\ [](/\ pcurrent \in 0..(Len(ptokens) - 1)
          /\ pcurrent + 1 <= FirstEof(ptokens))
    /\ [][/\ ptokens' = ptokens
          /\ pcurrent' \in {pcurrent, pcurrent + 1}
          /\ pcurrent' = pcurrent + 1 =>
                /\ ptokens[pcurrent + 1].kind # "Eof"
                /\ pcurrent' - 1 \in 0..(Len(ptokens) - 1)
         ]_vars

\* A parse has returned at a first Eof that other tokens follow, after
\* moving the cursor over three tokens.
C18_Witness ==
    /\ Parsed
    /\ presult.tag = "Ok"
    /\ pcurrent = 3
    /\ FirstEof(ptokens) = 4
    /\ Len(ptokens) > 4

(***************************************************************************)
(* C19: match_tokens moves the cursor by exactly one and returns true      *)
(* when the token at the cursor has one of the kinds it is given, and      *)
(* otherwise returns false and leaves the cursor alone; consume fails      *)
(* exactly when match_tokens returns false, with a diagnostic that         *)
(* carries the line and the kind of the token at the cursor and the        *)
(* expected kind.  run() on "(1 + 2" gets the one diagnostic: expected     *)
(* RightParen, got Eof.                                                    *)
(***************************************************************************)
BinaryLevels == {"equality", "comparison", "addition", "multiplication"}

\* The production on top is about to consume(RightParen).
AtConsume ==
    /\ Running("primary")
    /\ Top.pc = "group"
    /\ ret.tag = "Ok"

\* The kinds the production on top is about to give to match_tokens, {}
\* when it is not about to call it.
GivenKinds ==
    IF stack = <<>> THEN {}
    ELSE IF Top.fn \in BinaryLevels /\ Top.pc \in {"left", "right"}
            /\ ret.tag = "Ok"
    THEN CASE Top.fn = "equality" -> {"BangEqual", "EqualEqual"}
           [] Top.fn = "comparison" ->
                 {"Greater", "GreaterEqual", "Less", "LessEqual"}
           [] Top.fn = "addition" -> {"Minus", "Plus"}
           [] Top.fn = "multiplication" -> {"Slash", "Star"}
    ELSE IF Top.fn = "unary" /\ Top.pc = "start" THEN {"Bang", "Minus"}
    ELSE IF Top.fn = "primary" /\ Top.pc = "start"
    THEN {"True", "False", "Nil", "Number", "Str", "LeftParen"}
    ELSE IF AtConsume THEN {"RightParen"}
    ELSE {}

AtCursor == ptokens[pcurrent + 1]

C19_MatchAndConsume ==
    /\ [][GivenKinds # {} =>
            /\ AtCursor.kind \in GivenKinds =>
                  /\ pcurrent' = pcurrent + 1
                  /\ Top.fn \in BinaryLevels \cup {"unary"} =>
                        /\ Len(stack') = Len(stack) + 1
                        /\ stack'[Len(stack)].operator = AtCursor
            /\ AtCursor.kind \notin GivenKinds =>
                  /\ pcurrent' = pcurrent
                  /\ Top.fn \in BinaryLevels =>
                        Len(stack') = Len(stack) - 1 /\ ret'.tag = "Ok"
                  /\ Top.fn = "unary" => stack'[Len(stack)].operator = Unset
                  /\ Top.fn = "primary" => ret'.tag = "Err"
         ]_vars
    /\ [][AtConsume =>
            IF AtCursor.kind = "RightParen"
            THEN ret' = Ok(Grouping(ret.val))
            ELSE ret' = Err([line |-> AtCursor.line,
                             message |-> <<"Unexpected token. expected",
                                           "RightParen", AtCursor.kind>>])
         ]_vars
    /\ [](Parsed /\ source = <<"(", "1", " ", "+", " ", "2">> =>
            presult = Err([line |-> 1,
                           message |-> <<"Unexpected token. expected",
                                         "RightParen", "Eof">>]))
    /\ [](Parsed /\ source = <<"(", "1", " ", "+", "\n", "2", "\n">> =>
            presult = Err([line |-> 3,
                           message |-> <<"Unexpected token. expected",
                                         "RightParen", "Eof">>]))

\* run() on "(1 + 2" has its diagnostic.
C19_Witness ==
    /\ Parsed
    /\ source = <<"(", "1", " ", "+", " ", "2">>
    /\ presult.tag = "Err"

\* consume(RightParen) has failed on a token that is not Eof.
ConsumeFailedBeforeEof ==
    /\ Parsed
    /\ presult.tag = "Err"
    /\ presult.val.message = <<"Unexpected token. expected", "RightParen",
                               "Equal">>

(***************************************************************************)
(* C20: on a fresh Scanner every iteration of the loop of scan starts      *)
(* with current < len(source), sets start to it and ends with              *)
(* start < current <= len(source): at least one character is consumed      *)
(* and nothing past the end is read, so there are at most len(source)      *)
(* iterations and scan returns.                                            *)
(***************************************************************************)
OnFreshScanner == Len(results) = 0

C20_ScanTerminates ==
    /\ [](OnFreshScanner =>
            /\ current \in 0..Len(source)
            /\ start <= current
            /\ Len(tokens) + Len(errors) <= current)
    /\ [][OnFreshScanner /\ spc = "loop" /\ spc' = "loop" =>
            /\ current < Len(source)
            /\ start' = current
            /\ start' < current'
            /\ current' <= Len(source)
         ]_vars
    /\ (spc = "loop") ~> FirstScanDone

\* The scan of a statement of five characters took five iterations.
C20_Witness ==
    /\ FirstScanDone
    /\ Len(source) = 5
    /\ results[1].ok
    /\ Len(results[1].tokens) = 6

(***************************************************************************)
(* C21: whenever parse returns an expression, the token at the cursor is   *)
(* of none of the ten binary operator kinds; it need not be Eof: on the    *)
(* tokens of "1 2" and of "1 )" parse returns the expression of the        *)
(* leading 1, without a diagnostic, and leaves the cursor on the second    *)
(* token.                                                                  *)
(***************************************************************************)
BinaryOperatorKinds ==
    {"BangEqual", "EqualEqual", "Greater", "GreaterEqual", "Less",
     "LessEqual", "Minus", "Plus", "Slash", "Star"}

\* The expression of the number 1.
NumberOne ==
    [type |-> "NumberLiteral",
     value |-> [kind |-> "finite", neg |-> FALSE, m |-> 1, p |-> 0]]

C21_StopsAtNonOperator ==
    /\ Parsed /\ presult.tag = "Ok" =>
          AtCursor.kind \notin BinaryOperatorKinds
    /\ Parsed /\ source \in {<<"1", " ", "2">>, <<"1", " ", ")">>} =>
          /\ presult = [tag |-> "Ok", val |-> NumberOne]
          /\ pcurrent = 1
          /\ AtCursor.kind # "Eof"
          /\ Len(ptokens) = 3

\* parse has returned the expression of the 1 of "1 )".
C21_Witness ==
    /\ Parsed
    /\ source = <<"1", " ", ")">>
    /\ presult.tag = "Ok"
    /\ AtCursor.kind = "RightParen"

\* parse has returned a product and left a number and an operator unread.
ProductBeforeLeftovers ==
    /\ Parsed
    /\ source = <<"1", " ", "*", " ", "2", " ", "3", " ", "+">>
    /\ presult.tag = "Ok"
    /\ presult.val.type = "Binary"
    /\ pcurrent = 3

====
